---- MODULE Spec2Model ----
(***************************************************************************)
(* The glitter overlay of sparkling-cursor: the GlitterOverlay component   *)
(* (src/src/GlitterParticles.js), the earlier App component               *)
(* (src/src/App.js) and the useInterval hook both of them carry, as a      *)
(* state machine over React's commit / passive-effect / timer steps.       *)
(*                                                                         *)
(* Numbers.  Lengths (x, y, r, size, gravity, spread, decay and the draws  *)
(* of Math.random()) are exact rationals, held as integer multiples of     *)
(* 1/40 px; the clock is Date.now() in milliseconds; the sine of rgbValue  *)
(* is a fixed-point polynomial in units of 1/10000.  JavaScript's binary   *)
(* rounding of the same sums is not modelled.                              *)
(*                                                                         *)
(* React.  Both components are rendered with ReactDOM.render, and every    *)
(* setState in them is called from a window listener or from a timer, so   *)
(* each setState renders and commits synchronously.  The functions passed  *)
(* to useEffect are passive effects: they run in a later task, and at the  *)
(* latest right before the next render.  A timer callback or an input      *)
(* event can therefore run between a commit and its effects; FlushEffects  *)
(* is that later task.                                                     *)
(***************************************************************************)
EXTENDS Integers, Sequences, FiniteSets, TLC

\* ------------------------------------------------------------------ bounds

\* Particles spawned in one behaviour: an input event is delivered only if
\* its burst still fits.
MaxSpawn == 2

\* Input events delivered in one behaviour of rapid input.
MaxInputs == 4

\* The window of Date.now() values (ms) a behaviour runs in.
ClockStart == 8
MaxTime == 9

\* ------------------------------------------------------------ fixed point

\* The rational num/den as a length, in units of 1/40.
Fix(num, den) == (num * 40) \div den

Unit == Fix(1, 1)

\* The values Math.random() returns, as lengths: the least and the greatest
\* length of [0, 1).
Draws == {0, Fix(39, 40)}

\* Math.random() held at its least value.
NoDraws == {0}

\* Product of two lengths.
Mul(a, b) == (a * b) \div Unit

\* clientX / clientY of the n-th input event: every event at another point.
InputAt(n) == [x |-> Fix(100 * n, 1), y |-> Fix(100 + 50 * n, 1)]

\* -------------------------------------------------------------- JS values

\* undefined, null and the object {x, y}, the values screenInput takes.
Undefined == [kind |-> "undefined", x |-> 0, y |-> 0]
Null == [kind |-> "null", x |-> 0, y |-> 0]
Point(at) == [kind |-> "object", x |-> at.x, y |-> at.y]

\* if (v) of JavaScript, for one of these values.
Truthy(v) == v.kind = "object"

\* A delay handed to useInterval: null, or a number of milliseconds.
NullDelay == [null |-> TRUE, ms |-> 0]
Delay(ms) == [null |-> FALSE, ms |-> ms]

VARIABLES
  overlay,  \* the GlitterOverlay instance: its state and its hooks
  app,      \* the App instance: its state and its hooks
  props,    \* count, size, gravity, spread, decay
  random,   \* the values Math.random() returns in this behaviour
  now,      \* Date.now(), ms
  inputs,   \* history: input events delivered to a listener
  bursts    \* history: bursts spawned

vars == <<overlay, app, props, random, now, inputs, bursts>>

\* ------------------------------------------------------------- rgbValue

\* |sin(phase)|, phase in 1/10000 rad, result in 1/10000: the odd Taylor
\* polynomial to the 9th power on [0, pi/2], after reduction modulo pi.
AbsSin(phase) ==
  LET S  == 10000
      m  == phase % 31416
      th == IF m > 15708 THEN 31416 - m ELSE m
      t2 == (th * th) \div S
      a4 == S - t2 \div 72
      a3 == S - (t2 * a4) \div (42 * S)
      a2 == S - (t2 * a3) \div (20 * S)
      a1 == S - (t2 * a2) \div (6 * S)
  IN (th * a1) \div S

y0 == 75
y1 == 230

\* Mutant of rgbValue: Math.abs is left out, the interpolant is the sine
\* with its sign.
rgbValueSigned(ms, offNum, offDen) ==
  LET x0 == 0
      x1 == 10000
      ph == (ms * (offDen + 10 * offNum)) \div offDen
      x  == IF ph % 62832 > 31416 THEN 0 - AbsSin(ph) ELSE AbsSin(ph)
  IN (y0 * (x1 - x) + y1 * (x - x0)) \div (x1 - x0)

\* rgbValue(offset) read at Date.now() = ms, offset = offNum/offDen:
\* unixTime = ms/1000, x = |sin(unixTime/10 + unixTime*offset)|,
\* floor((y0*(x1 - x) + y1*(x - x0)) / (x1 - x0)) with x0 = 0, x1 = 1.
rgbValue(ms, offNum, offDen) ==
  LET x0 == 0
      x1 == 10000
      x  == AbsSin((ms * (offDen + 10 * offNum)) \div offDen)
  IN (y0 * (x1 - x) + y1 * (x - x0)) \div (x1 - x0)

\* The clock readings of the 3*n rgbValue calls of one burst, in call order:
\* the clock never runs backwards and may advance between any two calls.
\* (k[v] is the number of calls that read a value below v.)
ClockReads(n) ==
  {[i \in 1..(3 * n) |->
      now + Cardinality({v \in (now + 1)..MaxTime : k[v] < i})] :
     k \in [(now + 1)..MaxTime -> 0..(3 * n)]}

\* --------------------------------------------------------------- animate

\* Mutant of Alive: the filter lets a particle through one tick longer.
AliveOneMore(ps) == SelectSeq(ps, LAMBDA p : p.r + props.decay >= 0)

\* .filter(particle => particle.r >= 0)
Alive(ps) == SelectSeq(ps, LAMBDA p : p.r >= 0)

\* Mutant of Move: the colour is computed anew at every update.
MoveRecolour(ps, jit) ==
  [i \in 1..Len(ps) |->
     [x   |-> ps[i].x + props.decay \div 2 + Unit - jit[i] * 2,
      y   |-> ps[i].y + props.decay \div 2 + props.gravity,
      r   |-> ps[i].r - props.decay,
      c   |-> [r |-> rgbValue(now, 0, 1),
               g |-> rgbValue(now, 1, 3),
               b |-> rgbValue(now, 2, 3)],
      id  |-> ps[i].id,
      age |-> ps[i].age + 1]]

\* Mutant of Move: the y axis is jittered like the x axis.
MoveJitterBoth(ps, jit) ==
  [i \in 1..Len(ps) |->
     [x   |-> ps[i].x + props.decay \div 2 + Unit - jit[i] * 2,
      y   |-> ps[i].y + props.decay \div 2 + Unit - jit[i] * 2 + props.gravity,
      r   |-> ps[i].r - props.decay,
      c   |-> ps[i].c,
      id  |-> ps[i].id,
      age |-> ps[i].age + 1]]

\* Mutant of Move: the radius shrinks by the whole drift term.
MoveShrinkFast(ps, jit) ==
  [i \in 1..Len(ps) |->
     [x   |-> ps[i].x + props.decay \div 2 + Unit - jit[i] * 2,
      y   |-> ps[i].y + props.decay \div 2 + props.gravity,
      r   |-> ps[i].r - (props.decay \div 2 + Unit),
      c   |-> ps[i].c,
      id  |-> ps[i].id,
      age |-> ps[i].age + 1]]

\* .map(particle => ...): jit[i] is the Math.random() of the i-th particle.
\* id and age are history: the burst and place a particle was spawned at,
\* and the number of times it has been mapped.
Move(ps, jit) ==
  [i \in 1..Len(ps) |->
     [x   |-> ps[i].x + props.decay \div 2 + Unit - jit[i] * 2,
      y   |-> ps[i].y + props.decay \div 2 + props.gravity,
      r   |-> ps[i].r - props.decay,
      c   |-> ps[i].c,
      id  |-> ps[i].id,
      age |-> ps[i].age + 1]]

\* Mutant of Burst: the spread is not centred on the input.
BurstUncentred(at, ux, uy, t, no) ==
  [i \in 1..props.count |->
     [x   |-> at.x + Mul(ux[i], props.spread),
      y   |-> at.y + Mul(uy[i], props.spread),
      r   |-> props.size,
      c   |-> [r |-> rgbValue(t[3 * i - 2], 0, 1),
               g |-> rgbValue(t[3 * i - 1], 1, 3),
               b |-> rgbValue(t[3 * i], 2, 3)],
      id  |-> <<no, i>>,
      age |-> 0]]

\* Mutant of Burst: the colour offsets follow the loop index.
BurstIndexed(at, ux, uy, t, no) ==
  [i \in 1..props.count |->
     [x   |-> at.x - props.spread \div 2 + Mul(ux[i], props.spread),
      y   |-> at.y - props.spread \div 2 + Mul(uy[i], props.spread),
      r   |-> props.size,
      c   |-> [r |-> rgbValue(t[3 * i - 2], i - 1, 1),
               g |-> rgbValue(t[3 * i - 1], i, 3),
               b |-> rgbValue(t[3 * i], i + 1, 3)],
      id  |-> <<no, i>>,
      age |-> 0]]

\* The burst loop: count particles about the input `at`; ux, uy are the
\* Math.random() draws and t the clock readings of the rgbValue calls.
Burst(at, ux, uy, t, no) ==
  [i \in 1..props.count |->
     [x   |-> at.x - props.spread \div 2 + Mul(ux[i], props.spread),
      y   |-> at.y - props.spread \div 2 + Mul(uy[i], props.spread),
      r   |-> props.size,
      c   |-> [r |-> rgbValue(t[3 * i - 2], 0, 1),
               g |-> rgbValue(t[3 * i - 1], 1, 3),
               b |-> rgbValue(t[3 * i], 2, 3)],
      id  |-> <<no, i>>,
      age |-> 0]]

\* ----------------------------------------------------------- useInterval

\* Mutant of OverlayDelay: the interval is never paused.
OverlayDelayAlways(c) == Delay(66)

\* Mutant of OverlayDelay: a pending input alone does not start the interval.
OverlayDelayParticlesOnly(c) ==
  IF Len(c.particles) > 0 THEN Delay(66) ELSE NullDelay

\* The delay GlitterOverlay hands to useInterval at a render.
OverlayDelay(c) ==
  IF Len(c.particles) > 0 \/ Truthy(c.screenInput)
  THEN Delay(66) ELSE NullDelay

\* The animate closure of GlitterOverlay's latest render.
OverlayClosure(c) ==
  [set |-> TRUE, particles |-> c.particles, screenInput |-> c.screenInput]

\* savedCallback.current before the first effect has run.
NoCallback == [set |-> FALSE, particles |-> <<>>, screenInput |-> Undefined]

\* Mutant of RunEffects: the interval effect returns no cleanup, a changed
\* delay sets a new interval without clearing the previous one.
RunEffectsNoClear(c, cb, d) ==
  IF ~c.pending THEN c
  ELSE LET first   == c.deps = <<>>
           changed == first \/ <<d>> # c.deps
       IN [c EXCEPT
             !.pending       = FALSE,
             !.listeners     = IF first THEN @ + 1 ELSE @,
             !.savedCallback = cb,
             !.deps          = <<d>>,
             !.timers        = IF changed /\ ~d.null THEN @ + 1 ELSE @,
             !.cleanup       = IF changed THEN ~d.null ELSE @]

\* The passive effects of the latest committed render of a component whose
\* render made closure cb and delay d: on the first run the window listener
\* is added; savedCallback.current = callback on every run; and when delay
\* differs from the delay of the previous run, the previous run's cleanup
\* (clearInterval(id)) and then, unless delay is null, setInterval.  deps is
\* the dependency array [delay] of the previous run, empty before the first.
RunEffects(c, cb, d) ==
  IF ~c.pending THEN c
  ELSE LET first   == c.deps = <<>>
           changed == first \/ <<d>> # c.deps
           cleared == IF changed /\ c.cleanup THEN c.timers - 1 ELSE c.timers
       IN [c EXCEPT
             !.pending       = FALSE,
             !.listeners     = IF first THEN @ + 1 ELSE @,
             !.savedCallback = cb,
             !.deps          = <<d>>,
             !.timers        = IF changed /\ ~d.null THEN cleared + 1
                               ELSE cleared,
             !.cleanup       = IF changed THEN ~d.null ELSE @]

FlushOverlay(c) == RunEffects(c, OverlayClosure(c), OverlayDelay(c))

\* Mutant of Cleanup: the interval is not cleared.
CleanupLeak(c) ==
  [c EXCEPT !.mounted = FALSE, !.listeners = @ - 1, !.cleanup = FALSE]

\* The cleanups of the effects at unmount, the effects having run:
\* window.removeEventListener(eventType, handleClick), and clearInterval(id)
\* when the last interval effect set one.
Cleanup(c) ==
  [c EXCEPT !.mounted = FALSE,
            !.listeners = @ - 1,
            !.timers = IF c.cleanup THEN @ - 1 ELSE @,
            !.cleanup = FALSE]

\* Mutant of SetScreenInput: an input does not replace a pending one.
SetScreenInputKeepPending(c, v) ==
  IF ~c.mounted \/ (v = c.screenInput /\ v = Null)
     \/ (Truthy(v) /\ Truthy(c.screenInput))
  THEN c
  ELSE [RunEffects(c, OverlayClosure(c), OverlayDelay(c))
          EXCEPT !.screenInput = v, !.pending = TRUE]

\* setScreenInput(v): a state equal to the current one (null on null) bails
\* out; otherwise the pending effects run, then the render commits.
SetScreenInput(c, v) ==
  IF ~c.mounted \/ (v = c.screenInput /\ v = Null) THEN c
  ELSE [FlushOverlay(c) EXCEPT !.screenInput = v, !.pending = TRUE]

\* setParticles(ps): ps is a fresh array, it never equals the current one.
SetParticles(c, ps) ==
  IF ~c.mounted THEN c
  ELSE [FlushOverlay(c) EXCEPT !.particles = ps, !.pending = TRUE]

\* ------------------------------------------------------------------- App

\* App hands useInterval the same delay at every render.
AppDelay(c) == Delay(75)

\* The animate closure of App's latest render.
AppClosure(c) ==
  [set |-> TRUE, circles |-> c.circles, screenClicked |-> c.screenClicked,
   mousePos |-> c.mousePos]

AppNoCallback ==
  [set |-> FALSE, circles |-> <<>>, screenClicked |-> FALSE,
   mousePos |-> [x |-> 0, y |-> 0]]

FlushApp(c) == RunEffects(c, AppClosure(c), AppDelay(c))

\* setMousePos({x, y}): a fresh object, it never equals the current one.
SetMousePos(c, at) ==
  IF ~c.mounted THEN c
  ELSE [FlushApp(c) EXCEPT !.mousePos = at, !.pending = TRUE]

\* setScreenClicked(b): an equal state bails out.
SetScreenClicked(c, b) ==
  IF ~c.mounted \/ b = c.screenClicked THEN c
  ELSE [FlushApp(c) EXCEPT !.screenClicked = b, !.pending = TRUE]

\* setCircles(ps): ps is a fresh array.
SetCircles(c, ps) ==
  IF ~c.mounted THEN c
  ELSE [FlushApp(c) EXCEPT !.circles = ps, !.pending = TRUE]

\* ------------------------------------------------------------------ Init

SmallProps ==
  {[count |-> n, size |-> Fix(1, 4), gravity |-> Fix(3, 1),
    spread |-> Fix(25, 1), decay |-> Fix(1, 4)] : n \in {1, 2}}

\* After ReactDOM.render of the component: the first render has committed,
\* its effects have not run yet.
OverlayInit ==
  [mounted       |-> TRUE,
   particles     |-> <<>>,
   screenInput   |-> Undefined,
   savedCallback |-> NoCallback,
   pending       |-> TRUE,
   deps          |-> <<>>,
   cleanup       |-> FALSE,
   timers        |-> 0,
   listeners     |-> 0]

AppInit ==
  [mounted       |-> TRUE,
   circles       |-> <<>>,
   screenClicked |-> FALSE,
   mousePos      |-> [x |-> 0, y |-> 0],
   savedCallback |-> AppNoCallback,
   pending       |-> TRUE,
   deps          |-> <<>>,
   cleanup       |-> FALSE,
   timers        |-> 0,
   listeners     |-> 0]

\* src/unnamed/part_000: <App count={8} size={16} gravity={2.5} spread={25}
\* decay={0.4} />
DemoProps ==
  [count |-> 8, size |-> Fix(16, 1), gravity |-> Fix(5, 2),
   spread |-> Fix(25, 1), decay |-> Fix(4, 10)]

\* The component a page does not render: never mounted, no hook has run.
NotRendered(c) == [c EXCEPT !.mounted = FALSE, !.pending = FALSE]

\* A page renders one of the two components: src/src/index.js the overlay,
\* src/unnamed/part_000 the App.
Init ==
  /\ \/ overlay = OverlayInit /\ app = NotRendered(AppInit)
     \/ overlay = NotRendered(OverlayInit) /\ app = AppInit
  /\ props \in SmallProps
  /\ random = Draws
  /\ now = ClockStart
  /\ inputs = 0
  /\ bursts = 0

\* --------------------------------------------------------------- actions

\* The environment delivers one more input event: the first one always, a
\* later one while its burst fits MaxSpawn.
CanDeliver == inputs = 0 \/ (inputs + 1) * props.count <= MaxSpawn

\* The deferred task that runs the passive effects of the latest render.
FlushEffects ==
  /\ overlay.mounted /\ overlay.pending
  /\ overlay' = FlushOverlay(overlay)
  /\ UNCHANGED <<app, props, random, now, inputs, bursts>>

\* A mousedown / touchstart on the window while the listener is registered.
HandleClick ==
  /\ overlay.listeners > 0
  /\ CanDeliver
  /\ overlay' = SetScreenInput(overlay, Point(InputAt(inputs + 1)))
  /\ inputs' = inputs + 1
  /\ UNCHANGED <<app, props, random, now, bursts>>

\* The interval fires: tick() calls savedCallback.current(), the animate of
\* the render whose effects ran last.
Tick ==
  /\ overlay.timers > 0
  /\ LET cb   == overlay.savedCallback
         live == Alive(cb.particles)
     IN \E jit \in [1..Len(live) -> random] :
          LET moved == Move(live, jit)
          IN IF Truthy(cb.screenInput)
             THEN \E ux \in [1..props.count -> random],
                     uy \in [1..props.count -> random],
                     t \in ClockReads(props.count) :
                    /\ overlay' =
                         SetParticles(
                           SetScreenInput(overlay, Null),
                           moved \o Burst(cb.screenInput, ux, uy, t, bursts + 1))
                    /\ bursts' = bursts + 1
                    /\ now' = t[3 * props.count]
             ELSE /\ overlay' = SetParticles(overlay, moved)
                  /\ UNCHANGED <<bursts, now>>
  /\ UNCHANGED <<app, props, random, inputs>>

\* The component is unmounted: the pending effects run, then every effect's
\* cleanup.
Unmount ==
  /\ overlay.mounted
  /\ overlay' = Cleanup(FlushOverlay(overlay))
  /\ UNCHANGED <<app, props, random, now, inputs, bursts>>

\* Time passes between two steps.
TimePasses ==
  /\ now < MaxTime
  /\ now' = now + 1
  /\ UNCHANGED <<overlay, app, props, random, inputs, bursts>>

\* ----------------------------------------------------------- App actions

AppFlushEffects ==
  /\ app.mounted /\ app.pending
  /\ app' = FlushApp(app)
  /\ UNCHANGED <<overlay, props, random, now, inputs, bursts>>

\* handleClick of App: setMousePos, then setScreenClicked(true).
AppHandleClick ==
  /\ app.listeners > 0
  /\ CanDeliver
  /\ app' = SetScreenClicked(SetMousePos(app, InputAt(inputs + 1)), TRUE)
  /\ inputs' = inputs + 1
  /\ UNCHANGED <<overlay, props, random, now, bursts>>

AppTick ==
  /\ app.timers > 0
  /\ LET cb   == app.savedCallback
         live == Alive(cb.circles)
     IN \E jit \in [1..Len(live) -> random] :
          LET moved == Move(live, jit)
          IN IF cb.screenClicked
             THEN \E ux \in [1..props.count -> random],
                     uy \in [1..props.count -> random],
                     t \in ClockReads(props.count) :
                    /\ app' =
                         SetCircles(
                           SetScreenClicked(app, FALSE),
                           moved \o Burst(cb.mousePos, ux, uy, t, bursts + 1))
                    /\ bursts' = bursts + 1
                    /\ now' = t[3 * props.count]
             ELSE /\ app' = SetCircles(app, moved)
                  /\ UNCHANGED <<bursts, now>>
  /\ UNCHANGED <<overlay, props, random, inputs>>

AppUnmount ==
  /\ app.mounted
  /\ app' = Cleanup(FlushApp(app))
  /\ UNCHANGED <<overlay, props, random, now, inputs, bursts>>

Next ==
  \/ FlushEffects
  \/ HandleClick
  \/ Tick
  \/ Unmount
  \/ AppFlushEffects
  \/ AppHandleClick
  \/ AppTick
  \/ AppUnmount
  \/ TimePasses

Spec == Init /\ [][Next]_vars

\* The page of src/src/index.js, GlitterOverlay alone, in a browser that
\* runs every due task in the end: the deferred effects of a render run, and
\* an armed interval fires.
InitOverlay ==
  /\ overlay = OverlayInit
  /\ app = NotRendered(AppInit)
  /\ props \in SmallProps
  /\ random = Draws
  /\ now = ClockStart
  /\ inputs = 0
  /\ bursts = 0

NextOverlay ==
  \/ FlushEffects
  \/ HandleClick
  \/ Tick
  \/ Unmount
  \/ TimePasses

FairSpec ==
  /\ InitOverlay
  /\ [][NextOverlay]_vars
  /\ WF_vars(FlushEffects)
  /\ WF_vars(Tick)

\* The demo page of src/unnamed/part_000: App with DemoProps.  Math.random()
\* is held at 0, which keeps the 8 particles of a burst on one path.
InitDemo ==
  /\ overlay = NotRendered(OverlayInit)
  /\ app = AppInit
  /\ props = DemoProps
  /\ random = NoDraws
  /\ now = ClockStart
  /\ inputs = 0
  /\ bursts = 0

NextDemo ==
  \/ AppFlushEffects
  \/ AppHandleClick
  \/ AppTick
  \/ AppUnmount
  \/ TimePasses

SpecDemo == InitDemo /\ [][NextDemo]_vars

\* Either page, with one particle per burst and the spread prop at 0, at
\* 1/40 px, at 3/40 px and at 25 px.
SpreadProps ==
  {[count |-> 1, size |-> Fix(1, 4), gravity |-> Fix(3, 1),
    spread |-> sp, decay |-> Fix(1, 4)] : sp \in {0, 1, 3, Fix(25, 1)}}

InitSpread ==
  /\ \/ overlay = OverlayInit /\ app = NotRendered(AppInit)
     \/ overlay = NotRendered(OverlayInit) /\ app = AppInit
  /\ props \in SpreadProps
  /\ random = Draws
  /\ now = ClockStart
  /\ inputs = 0
  /\ bursts = 0

SpecSpread == InitSpread /\ [][Next]_vars

\* Values of Date.now() across the period of the sine: the start of the
\* clock window, every third second of the first 48, and three instants at
\* which a channel is at the crest of its wave (offsets 2/3, 1/3 and 0).
ColorTimes ==
  {ClockStart} \cup {3000 * k : k \in 1..16} \cup {2029, 3594, 15538}

\* Either page, one particle per burst, loaded at one of ColorTimes.
InitColor ==
  /\ \/ overlay = OverlayInit /\ app = NotRendered(AppInit)
     \/ overlay = NotRendered(OverlayInit) /\ app = AppInit
  /\ props \in {pr \in SmallProps : pr.count = 1}
  /\ random = Draws
  /\ now \in ColorTimes
  /\ inputs = 0
  /\ bursts = 0

SpecColor == InitColor /\ [][Next]_vars

\* Rapid input: a mousedown / touchstart at any moment the listener is
\* registered, MaxInputs of them.
RapidClick ==
  /\ overlay.listeners > 0
  /\ inputs < MaxInputs
  /\ overlay' = SetScreenInput(overlay, Point(InputAt(inputs + 1)))
  /\ inputs' = inputs + 1
  /\ UNCHANGED <<app, props, random, now, bursts>>

\* One or two particles per burst, of size 0, of size decay/2 and of size
\* decay: a particle is updated once, or twice, before the filter drops it.
RapidProps ==
  {[count |-> n, size |-> sz, gravity |-> Fix(3, 1),
    spread |-> Fix(25, 1), decay |-> Fix(1, 4)] :
     n \in {1, 2}, sz \in {0, Fix(1, 8), Fix(1, 4)}}

\* GlitterOverlay under rapid input, Math.random() held at 0.
InitRapid ==
  /\ overlay = OverlayInit
  /\ app = NotRendered(AppInit)
  /\ props \in RapidProps
  /\ random = NoDraws
  /\ now = ClockStart
  /\ inputs = 0
  /\ bursts = 0

NextRapid ==
  \/ FlushEffects
  \/ RapidClick
  \/ Tick
  \/ Unmount

SpecRapid == InitRapid /\ [][NextRapid]_vars

\* ------------------------------------------------- the two side by side

\* GlitterOverlay and App on one page, given the same props, Math.random()
\* held at 0.
InitPair ==
  /\ overlay = OverlayInit
  /\ app = AppInit
  /\ props \in SmallProps
  /\ random = NoDraws
  /\ now = ClockStart
  /\ inputs = 0
  /\ bursts = 0

\* The deferred effects of both components run.
PairFlush ==
  /\ overlay.mounted /\ app.mounted
  /\ overlay.pending \/ app.pending
  /\ overlay' = FlushOverlay(overlay)
  /\ app' = FlushApp(app)
  /\ UNCHANGED <<props, random, now, inputs, bursts>>

\* One input event reaches the listeners of both components.
PairClick ==
  /\ overlay.listeners > 0 /\ app.listeners > 0
  /\ CanDeliver
  /\ overlay' = SetScreenInput(overlay, Point(InputAt(inputs + 1)))
  /\ app' = SetScreenClicked(SetMousePos(app, InputAt(inputs + 1)), TRUE)
  /\ inputs' = inputs + 1
  /\ UNCHANGED <<props, random, now, bursts>>

\* Both intervals fire: each component runs its saved animate, with the same
\* values of Math.random() and of Date.now().
PairTick ==
  /\ overlay.timers > 0 /\ app.timers > 0
  /\ LET cbO   == overlay.savedCallback
         cbA   == app.savedCallback
         liveO == Alive(cbO.particles)
         liveA == Alive(cbA.circles)
         n     == IF Len(liveO) > Len(liveA) THEN Len(liveO) ELSE Len(liveA)
     IN \E jit \in [1..n -> random],
           ux \in [1..props.count -> random],
           uy \in [1..props.count -> random],
           t \in ClockReads(props.count) :
          /\ overlay' =
               IF Truthy(cbO.screenInput)
               THEN SetParticles(
                      SetScreenInput(overlay, Null),
                      Move(liveO, jit)
                        \o Burst(cbO.screenInput, ux, uy, t, bursts + 1))
               ELSE SetParticles(overlay, Move(liveO, jit))
          /\ app' =
               IF cbA.screenClicked
               THEN SetCircles(
                      SetScreenClicked(app, FALSE),
                      Move(liveA, jit)
                        \o Burst(cbA.mousePos, ux, uy, t, bursts + 1))
               ELSE SetCircles(app, Move(liveA, jit))
          /\ IF Truthy(cbO.screenInput) \/ cbA.screenClicked
             THEN bursts' = bursts + 1 /\ now' = t[3 * props.count]
             ELSE UNCHANGED <<bursts, now>>
  /\ UNCHANGED <<props, random, inputs>>

\* App's interval fires while GlitterOverlay has none armed, and the animate
\* it calls spawns nothing (an input that App's saved animate holds waits
\* for the tick of both).
AppTickAlone ==
  /\ overlay.mounted /\ overlay.timers = 0
  /\ ~app.savedCallback.screenClicked
  /\ AppTick

\* The page is torn down.
PairUnmount ==
  /\ overlay.mounted /\ app.mounted
  /\ overlay' = Cleanup(FlushOverlay(overlay))
  /\ app' = Cleanup(FlushApp(app))
  /\ UNCHANGED <<props, random, now, inputs, bursts>>

NextPair ==
  \/ PairFlush
  \/ PairClick
  \/ PairTick
  \/ AppTickAlone
  \/ PairUnmount
  \/ TimePasses

SpecPair == InitPair /\ [][NextPair]_vars

\* ---------------------------------------------------------- vocabulary

\* The particle collection the page renders, before and after a step.
Shown == overlay.particles \o app.circles
ShownNext == overlay'.particles \o app'.circles

\* An input is pending in the component's state.
Pending == Truthy(overlay.screenInput) \/ app.screenClicked
PendingNext == Truthy(overlay'.screenInput) \/ app'.screenClicked

\* The step is a tick that changed the collection (no other step does).
Ticked == ShownNext # Shown

Ids(ps) == {ps[i].id : i \in 1..Len(ps)}
ById(ps, id) == ps[CHOOSE i \in 1..Len(ps) : ps[i].id = id]

\* The particles of burst number n in a collection.
OfBurst(ps, n) == {i \in 1..Len(ps) : ps[i].id[1] = n}

Abs(n) == IF n < 0 THEN 0 - n ELSE n

\* ------------------------------------------------------------------- C1

\* C1: no particle of the rendered collection has a negative radius.
C1_NoNegativeRadius == \A i \in 1..Len(Shown) : Shown[i].r >= 0

\* ------------------------------------------------------------------- C2

OverlayIdle == Len(overlay.particles) = 0 /\ ~Truthy(overlay.screenInput)
AppIdle == Len(app.circles) = 0 /\ ~app.screenClicked

\* C2 as stated: in each component, mounted with an empty collection and no
\* pending input, no interval is armed.
C2_IdleMeansNoTimer ==
  /\ overlay.mounted /\ OverlayIdle => overlay.timers = 0
  /\ app.mounted /\ AppIdle => app.timers = 0

\* C2 amended: GlitterOverlay, mounted, idle and with the effects of its
\* latest render run, has no interval armed; App has exactly one interval
\* armed from its first effects on, idle or not.
C2_OverlayPausedOnceEffectsRun ==
  /\ overlay.mounted /\ OverlayIdle /\ ~overlay.pending => overlay.timers = 0
  /\ app.mounted /\ app.deps # <<>> => app.timers = 1

\* GlitterOverlay has spawned a burst, has run idle and has paused.
C2_OverlayPausedAfterBurst ==
  /\ overlay.mounted /\ OverlayIdle /\ ~overlay.pending
  /\ bursts > 0
  /\ overlay.timers = 0

\* ------------------------------------------------------------------- C3

\* C3 as stated: two particles of one burst carry the same colour.
C3_BurstSharesColor ==
  \A i, j \in 1..Len(Shown) :
    Shown[i].id[1] = Shown[j].id[1] => Shown[i].c = Shown[j].c

\* C3 amended: every channel of a particle spawned by a tick is rgbValue at a
\* clock value read during that tick, one reading per call; the particles of
\* the burst carry one colour if the clock stands still during the tick.
C3_BurstColorsFollowClock ==
  [][bursts' # bursts =>
       /\ \A i \in OfBurst(ShownNext, bursts') :
            /\ ShownNext[i].c.r \in {rgbValue(t, 0, 1) : t \in now..now'}
            /\ ShownNext[i].c.g \in {rgbValue(t, 1, 3) : t \in now..now'}
            /\ ShownNext[i].c.b \in {rgbValue(t, 2, 3) : t \in now..now'}
       /\ now' = now =>
            \A i, j \in OfBurst(ShownNext, bursts') :
              ShownNext[i].c = ShownNext[j].c]_vars

\* Two particles of one burst are in the collection, with different colours.
C3_BurstOfTwoColors ==
  \E i, j \in 1..Len(Shown) :
    /\ Shown[i].id[1] = Shown[j].id[1]
    /\ Shown[i].c # Shown[j].c

\* ------------------------------------------------------------------- C4

\* C4 as stated: a tick with an input pending appends exactly count
\* particles of radius size and clears the pending input, a tick with none
\* pending appends none; bursts never outnumber inputs.
C4_TickConsumesPendingInput ==
  [][/\ Ticked =>
          IF Pending
          THEN /\ bursts' = bursts + 1
               /\ Cardinality(OfBurst(ShownNext, bursts')) = props.count
               /\ \A i \in OfBurst(ShownNext, bursts') :
                    ShownNext[i].r = props.size
               /\ ~PendingNext
          ELSE bursts' = bursts
     /\ bursts' <= inputs']_vars

\* ------------------------------------------------------------------- C5

\* C5 as stated: a tick that spawns a burst spawns one burst of count
\* particles, each within spread/2 of the most recent input on both axes.
C5_BurstAtLatestInput ==
  [][bursts' # bursts =>
       /\ bursts' = bursts + 1
       /\ Cardinality(OfBurst(ShownNext, bursts')) = props.count
       /\ \A i \in OfBurst(ShownNext, bursts') :
            /\ Abs(ShownNext[i].x - InputAt(inputs).x) <= props.spread \div 2
            /\ Abs(ShownNext[i].y - InputAt(inputs).y) <= props.spread \div 2]_vars

\* ------------------------------------------------------------------- C6

\* C6 as stated: a particle in the collection before and after a tick has
\* lost exactly decay of its radius, and no other step changes a radius.
C6_RadiusShrinksByDecay ==
  [][\A id \in Ids(Shown) \cap Ids(ShownNext) :
       ById(ShownNext, id).r =
         IF Ticked THEN ById(Shown, id).r - props.decay
         ELSE ById(Shown, id).r]_vars

\* ------------------------------------------------------------------- C7

C8_SurvivesIffNonNegative ==
  [][Ticked =>
       \A i \in 1..Len(Shown) :
         Shown[i].id \in Ids(ShownNext) <=> Shown[i].r >= 0]_vars

\* ------------------------------------------------------------------- C9

\* The particles of burst n are in GlitterOverlay's collection, each within
\* spread/2 of the k-th input on both axes.
BurstAround(n, k) ==
  /\ OfBurst(overlay.particles, n) # {}
  /\ \A i \in OfBurst(overlay.particles, n) :
       /\ Abs(overlay.particles[i].x - InputAt(k).x) <= props.spread \div 2
       /\ Abs(overlay.particles[i].y - InputAt(k).y) <= props.spread \div 2

\* C9: in the mounted GlitterOverlay, (1) an input pending while no interval
\* is armed leads to an armed interval, (2) a pending input leads to a tick
\* that spawns a burst and leaves no input pending, and (3) the input
\* recorded while no interval is armed leads to the burst about its own
\* coordinate, unless a later input replaces it; each unless the component
\* is unmounted first.
C9_PendingInputLeadsToBurst ==
  /\ (overlay.mounted /\ Truthy(overlay.screenInput) /\ overlay.timers = 0)
       ~> (~overlay.mounted \/ overlay.timers > 0)
  /\ \A n \in 0..MaxSpawn :
       (overlay.mounted /\ Truthy(overlay.screenInput) /\ bursts = n)
         ~> (~overlay.mounted
             \/ (bursts > n /\ ~Truthy(overlay.screenInput)))
  /\ \A n \in 0..MaxSpawn, k \in 1..MaxSpawn :
       (/\ overlay.mounted /\ Truthy(overlay.screenInput)
        /\ overlay.timers = 0 /\ bursts = n /\ inputs = k)
         ~> (\/ ~overlay.mounted
             \/ inputs > k
             \/ (/\ bursts = n + 1 /\ ~Truthy(overlay.screenInput)
                 /\ BurstAround(n + 1, k)))

\* GlitterOverlay has paused after a burst and an input has been recorded:
\* the input is pending and no interval is armed.
C9_InputWhilePaused ==
  /\ overlay.mounted
  /\ bursts > 0
  /\ Len(overlay.particles) = 0
  /\ Truthy(overlay.screenInput)
  /\ overlay.timers = 0

\* ------------------------------------------------------------------ C10

\* C10: an unmounted component has no interval armed and no listener on the
\* window, and no step changes its state, spawns a burst or records an
\* input.
C10_NothingAfterUnmount ==
  [][/\ ~overlay'.mounted => overlay'.timers = 0 /\ overlay'.listeners = 0
     /\ ~app'.mounted => app'.timers = 0 /\ app'.listeners = 0
     /\ ~overlay.mounted /\ ~app.mounted =>
          /\ overlay' = overlay /\ app' = app
          /\ bursts' = bursts /\ inputs' = inputs]_vars

\* GlitterOverlay was unmounted with particles in its collection, its
\* interval running.
C10_UnmountedWhileRunning ==
  /\ ~overlay.mounted
  /\ overlay.deps # <<>>
  /\ Len(overlay.particles) > 0

\* ------------------------------------------------------------------ C11

\* C11: a step that delivers an input event leaves the rendered collection
\* as it is and makes the event's coordinate the pending input, whatever was
\* pending before (GlitterOverlay: screenInput; App: mousePos with
\* screenClicked set).
C11_InputOnlyRecordsPending ==
  [][inputs' # inputs =>
       /\ ShownNext = Shown
       /\ overlay.mounted => overlay'.screenInput = Point(InputAt(inputs'))
       /\ app.mounted =>
            app'.mousePos = InputAt(inputs') /\ app'.screenClicked]_vars

\* The second input event has been recorded over a collection that holds
\* particles.
C11_InputOverParticles ==
  /\ inputs = 2
  /\ Len(overlay.particles) > 0
  /\ overlay.screenInput = Point(InputAt(2))

\* ------------------------------------------------------------------ C12

\* The input a tick of the mounted component reads: the screenInput, or the
\* mousePos, of the animate it calls.
Consumed ==
  IF overlay.mounted THEN overlay.savedCallback.screenInput
  ELSE app.savedCallback.mousePos

\* C12: every particle a tick spawns lies, on each axis, within spread/2 of
\* the input coordinate that tick consumed.
C12_SpawnWithinHalfSpread ==
  [][bursts' # bursts =>
       \A i \in OfBurst(ShownNext, bursts') :
         /\ 2 * Abs(ShownNext[i].x - Consumed.x) <= props.spread
         /\ 2 * Abs(ShownNext[i].y - Consumed.y) <= props.spread]_vars

\* With spread 25, a particle has been spawned on the edge of the spread:
\* spread/2 to the left of the first input.
C12_SpawnedOnTheEdge ==
  /\ props.spread = Fix(25, 1)
  /\ \E i \in 1..Len(Shown) :
       /\ Shown[i].age = 0
       /\ Shown[i].x = InputAt(1).x - props.spread \div 2

\* ------------------------------------------------------------------ C13

\* C13: rgbValue at the current clock value is in [75, 230] for each of the
\* three offsets, and every channel of every particle of the rendered
\* collection is in [75, 230].
C13_ChannelsInRange ==
  /\ rgbValue(now, 0, 1) \in y0..y1
  /\ rgbValue(now, 1, 3) \in y0..y1
  /\ rgbValue(now, 2, 3) \in y0..y1
  /\ \A i \in 1..Len(Shown) :
       /\ Shown[i].c.r \in y0..y1
       /\ Shown[i].c.g \in y0..y1
       /\ Shown[i].c.b \in y0..y1

\* A particle has been spawned with its red channel at the upper end, 230,
\* and its blue channel below it.
C13_ChannelAtUpperEnd ==
  \E i \in 1..Len(Shown) : Shown[i].c.r = y1 /\ Shown[i].c.b < y1

\* ------------------------------------------------------------------ C14

\* Every particle the page holds: the rendered collection and the
\* collections the saved animate closed over, before and after a step.
Known ==
  Shown \o overlay.savedCallback.particles \o app.savedCallback.circles
KnownNext ==
  ShownNext \o overlay'.savedCallback.particles
            \o app'.savedCallback.circles

\* C14: a particle keeps its colour: wherever a particle (the i-th of a
\* burst) is held before or after a step, it carries one and the same
\* (r, g, b) triple, from the step that spawns it on.
C14_ColorFixedAtSpawn ==
  [][\A i, j \in 1..Len(Known \o KnownNext) :
       (Known \o KnownNext)[i].id = (Known \o KnownNext)[j].id =>
         (Known \o KnownNext)[i].c = (Known \o KnownNext)[j].c]_vars

\* A particle that has been updated is in the collection, and rgbValue no
\* longer returns the colour it carries.
C14_OldColorKept ==
  \E i \in 1..Len(Shown) :
    /\ Shown[i].age >= 1
    /\ Shown[i].c # [r |-> rgbValue(now, 0, 1),
                     g |-> rgbValue(now, 1, 3),
                     b |-> rgbValue(now, 2, 3)]

\* ------------------------------------------------------------------ C15

\* The collection the animate a tick calls closed over.
Closed ==
  IF overlay.mounted THEN overlay.savedCallback.particles
  ELSE app.savedCallback.circles

\* C15 as stated: a tick moves every surviving particle, on each axis, by
\* decay/2 + 1 - u with u = 2 * Math.random() a draw of that tick, and on
\* the y axis by gravity in addition.
C15_BothAxesJitter ==
  [][Ticked =>
       \A j \in 1..Len(ShownNext) :
         ShownNext[j].age > 0 =>
           \E i \in 1..Len(Closed) :
             /\ Closed[i].id = ShownNext[j].id
             /\ \E u \in random :
                  ShownNext[j].x = Closed[i].x + props.decay \div 2 + Unit - 2 * u
             /\ \E u \in random :
                  ShownNext[j].y =
                    Closed[i].y + props.decay \div 2 + Unit - 2 * u
                      + props.gravity]_vars

\* C15 amended: a tick moves every surviving particle by decay/2 + 1 - u on
\* the x axis, u = 2 * Math.random() a draw of that tick, and by exactly
\* decay/2 + gravity on the y axis, from the position it has in the
\* collection the called animate closed over.
C15_JitterOnXOnly ==
  [][Ticked =>
       \A j \in 1..Len(ShownNext) :
         ShownNext[j].age > 0 =>
           \E i \in 1..Len(Closed) :
             /\ Closed[i].id = ShownNext[j].id
             /\ ShownNext[j].age = Closed[i].age + 1
             /\ \E u \in random :
                  ShownNext[j].x = Closed[i].x + props.decay \div 2 + Unit - 2 * u
             /\ ShownNext[j].y =
                  Closed[i].y + props.decay \div 2 + props.gravity]_vars

\* A particle spawned at the corner of the spread about the first input has
\* been updated once with the draw 0: one pixel and decay/2 to the right,
\* gravity and decay/2 down.
C15_MovedOnce ==
  \E i \in 1..Len(Shown) :
    /\ Shown[i].age = 1
    /\ Shown[i].x =
         InputAt(1).x - props.spread \div 2 + props.decay \div 2 + Unit
    /\ Shown[i].y =
         InputAt(1).y - props.spread \div 2 + props.decay \div 2
           + props.gravity

\* ------------------------------------------------------------------ C16

\* C16: GlitterOverlay, its effects run and its interval firing in the end,
\* comes to rest and stays at rest: from some point on it is unmounted, or
\* its collection is empty, no input is pending and no interval is armed.
C16_ComesToRest ==
  <>[](~overlay.mounted \/ (OverlayIdle /\ overlay.timers = 0))

\* GlitterOverlay is at rest after its last input: every input the
\* environment delivers has been recorded, a burst has been spawned, the
\* collection has run empty and the interval is cleared.
C16_AtRestAfterLastInput ==
  /\ overlay.mounted /\ ~overlay.pending
  /\ ~CanDeliver
  /\ bursts > 0
  /\ OverlayIdle
  /\ overlay.timers = 0

\* ------------------------------------------------------------------ C17

\* C17: a component has at most one interval armed.
C17_AtMostOneTimer == overlay.timers <= 1 /\ app.timers <= 1

\* GlitterOverlay has paused and resumed: after a burst spawned from the
\* empty collection, whose tick renders with a null delay in between, the
\* interval is armed again over the particles.
C17_ResumedAfterPause ==
  /\ overlay.mounted /\ ~overlay.pending
  /\ bursts > 0
  /\ Len(overlay.particles) > 0
  /\ overlay.timers = 1

\* ------------------------------------------------------------------ C18

\* Updates a particle lives through: floor(size / decay) + 1.
MaxAge == props.size \div props.decay + 1

View(ps) ==
  [i \in 1..Len(ps) |->
     [x |-> ps[i].x, y |-> ps[i].y, r |-> ps[i].r, c |-> ps[i].c]]

\* C19: fed the same input events, random values and clock values, with
\* their effects run together and their intervals firing together whenever
\* both are armed, GlitterOverlay and App show the same collection.
C19_SameCollections == View(overlay.particles) = View(app.circles)

====
